---- MODULE Spec2Model ----
(***************************************************************************)
(* Shading and palettisation pipeline of internal/sprite/shader.go:        *)
(* shade -> flood-fill regions -> dither pass 1 (region statistics) ->     *)
(* region distances -> dither pass 2, and the projections GetMaskIndex and *)
(* GetRegion.                                                              *)
(*                                                                         *)
(* Numbers.  float64 is modelled in fixed point.  Weights (Influence,      *)
(* Alpha, Specialness, Distance, the manifest thresholds) are integers in  *)
(* units of 1/One; colour channels are integers in the program's own units *)
(* (0..65535).  A quotient is truncated.  The IEEE special values that the *)
(* unguarded divisions of GetShaderOutput can produce are kept: NaN, Inf   *)
(* and NegInf are three reserved integers and every arithmetic operator    *)
(* below treats them as IEEE-754 does.                                     *)
(*                                                                         *)
(* Inputs.  def.Debug is FALSE in every input, so the debug channels of    *)
(* ShaderInfo (Normal .. Transparency) keep their zero value and are not   *)
(* carried in the record.                                                  *)
(***************************************************************************)
EXTENDS Integers, Sequences, FiniteSets, TLC

VARIABLES renderOutput, spr, def, output, pc, x, y, currentRegion, regions,
          errCurr, errNext, proj

vars == <<renderOutput, spr, def, output, pc, x, y, currentRegion, regions,
          errCurr, errNext, proj>>

\* ------------------------------------------------------------------ bounds
Width == 3
Height == 2
MaxRegion == 70

\* ------------------------------------------------------- number model
One == 4 * 4
Inf == 2^30
NegInf == -(2^30)
NaN == 2^30 + 1
MaxDepth == 2^30 - 1
MaxChannel == 65535
SentinelLevel == 65000
Saturated == 2^28

Abs(a) == IF a < 0 THEN -a ELSE a
Sign(a) == IF a < 0 THEN -1 ELSE IF a > 0 THEN 1 ELSE 0
IsInf(a) == a = Inf \/ a = NegInf
Signed(s) == IF s < 0 THEN NegInf ELSE Inf

FNeg(a) == IF a = NaN THEN NaN ELSE -a

FAdd(a, b) ==
    IF a = NaN \/ b = NaN THEN NaN
    ELSE IF IsInf(a) THEN (IF IsInf(b) /\ b # a THEN NaN ELSE a)
    ELSE IF IsInf(b) THEN b
    ELSE a + b

FSub(a, b) == FAdd(a, FNeg(b))

\* a * b, both finite or special; a finite product beyond the integer range
\* saturates (its only use is followed by a clamp to 0..MaxChannel)
FMul(a, b) ==
    IF a = NaN \/ b = NaN THEN NaN
    ELSE IF IsInf(a) \/ IsInf(b)
         THEN (IF a = 0 \/ b = 0 THEN NaN ELSE Signed(Sign(a) * Sign(b)))
    ELSE IF a = 0 \/ b = 0 THEN 0
    ELSE IF Abs(a) > Saturated \div Abs(b) THEN Sign(a) * Sign(b) * Saturated
    ELSE a * b

\* a / b truncated
FDiv(a, b) ==
    IF a = NaN \/ b = NaN THEN NaN
    ELSE IF IsInf(a) THEN (IF IsInf(b) THEN NaN
                           ELSE IF b < 0 THEN FNeg(a) ELSE a)
    ELSE IF IsInf(b) THEN 0
    ELSE IF b = 0 THEN (IF a = 0 THEN NaN ELSE Signed(a))
    ELSE Sign(a) * Sign(b) * (Abs(a) \div Abs(b))

FLess(a, b) == a # NaN /\ b # NaN /\ a < b

\* ------------------------------------------------------------ colour.RGB
RGB(r, g, b) == [R |-> r, G |-> g, B |-> b]
Grey(v) == RGB(v, v, v)
ZeroRGB == RGB(0, 0, 0)

Add(a, b) == RGB(FAdd(a.R, b.R), FAdd(a.G, b.G), FAdd(a.B, b.B))
Subtract(a, b) == RGB(FSub(a.R, b.R), FSub(a.G, b.G), FSub(a.B, b.B))

Clamp(v) == IF FLess(v, 0) THEN 0
            ELSE IF FLess(MaxChannel, v) THEN MaxChannel ELSE v
ClampRGB(c) == RGB(Clamp(c.R), Clamp(c.G), Clamp(c.B))

\* c.MultiplyBy(n / d) for the literal factors 3.0/16, 5.0/16, 1.0/16, 7.0/16
MultiplyBy(c, n, d) ==
    RGB(FDiv(FMul(c.R, n), d), FDiv(FMul(c.G, n), d), FDiv(FMul(c.B, n), d))

\* c.DivideAndClamp(divisor)
DivideAndClamp(c, divisor) ==
    ClampRGB(RGB(FDiv(c.R, divisor), FDiv(c.G, divisor), FDiv(c.B, divisor)))

\* --------------------------------------------------------- colour.Palette
Nil == "nil"

Ranges ==
    [grey |-> [Start |-> 1, End |-> 5, IsPrimaryCompanyColour |-> FALSE,
               IsSecondaryCompanyColour |-> FALSE, IsAnimatedLight |-> FALSE],
     cc1  |-> [Start |-> 6, End |-> 7, IsPrimaryCompanyColour |-> TRUE,
               IsSecondaryCompanyColour |-> FALSE, IsAnimatedLight |-> FALSE],
     anim |-> [Start |-> 8, End |-> 8, IsPrimaryCompanyColour |-> FALSE,
               IsSecondaryCompanyColour |-> FALSE, IsAnimatedLight |-> TRUE]]

\* rng = &colour.PaletteRange{} : the empty range, all flags false
EmptyRange ==
    [Start |-> 0, End |-> 0, IsPrimaryCompanyColour |-> FALSE,
     IsSecondaryCompanyColour |-> FALSE, IsAnimatedLight |-> FALSE]

Entry(rng, rgb, renderable) ==
    [Range |-> rng, RGB |-> rgb, Renderable |-> renderable]

\* palette index i is EntryTable[i + 1]; a range is named by its handle, so
\* two entries are in the identical range iff their handles are equal
EntryTable ==
    << Entry(Nil,    RGB(0, 0, MaxChannel), FALSE),
       Entry("grey", Grey(8000),  TRUE),
       Entry("grey", Grey(16000), TRUE),
       Entry("grey", Grey(24000), TRUE),
       Entry("grey", Grey(32000), TRUE),
       Entry("grey", Grey(40000), TRUE),
       Entry("cc1",  RGB(0, 0, 20000), TRUE),
       Entry("cc1",  RGB(0, 0, 44000), TRUE),
       Entry("anim", RGB(60000, 60000, 0), TRUE),
       Entry(Nil,    Grey(50000), TRUE) >>

PaletteIndices == 0 .. (Len(EntryTable) - 1)
Entries(i) == EntryTable[i + 1]
GetRGB(i) == Entries(i).RGB

RangeOf(h) == IF h = Nil THEN EmptyRange ELSE Ranges[h]

IsSpecialColour(i) ==
    LET r == RangeOf(Entries(i).Range)
    IN r.IsPrimaryCompanyColour \/ r.IsSecondaryCompanyColour \/ r.IsAnimatedLight

IsRenderable(i) == Entries(i).Renderable

Magenta == RGB(MaxChannel, 0, MaxChannel)

GetRegularPalette ==
    [i \in PaletteIndices |->
        IF IsRenderable(i) /\ ~IsSpecialColour(i) THEN GetRGB(i) ELSE Magenta]

GetPrimaryCompanyColourPalette ==
    [i \in PaletteIndices |->
        IF RangeOf(Entries(i).Range).IsPrimaryCompanyColour THEN GetRGB(i) ELSE Magenta]

GetSecondaryCompanyColourPalette ==
    [i \in PaletteIndices |->
        IF RangeOf(Entries(i).Range).IsSecondaryCompanyColour THEN GetRGB(i) ELSE Magenta]

\* ------------------------------------------------------------ ShaderInfo
ZeroInfo ==
    [Colour |-> ZeroRGB, SpecialColour |-> ZeroRGB, Alpha |-> 0,
     Specialness |-> 0, Region |-> 0, ModalIndex |-> 0, DitheredIndex |-> 0,
     IsMaskColour |-> FALSE, IsAnimated |-> FALSE]

ZeroDistance == [Low |-> 0, High |-> 0]

\* the zero RegionInfo; its ModalCount is the nil map
ZeroRegion ==
    [ModalCount |-> << >>, AverageColour |-> ZeroRGB, Distance |-> ZeroDistance,
     MinIndex |-> 0, MaxIndex |-> 0, Size |-> 0, SizeInRange |-> 0, Range |-> Nil]

\* ---------------------------------------------------------------- inputs
Sample(collision, index, depth, influence, count, recovered, detail) ==
    [Collision |-> collision, Index |-> index, Depth |-> depth,
     Influence |-> influence, Count |-> count, IsRecovered |-> recovered,
     Detail |-> detail]

Hit(index, depth, influence) == Sample(TRUE, index, depth, influence, 1, FALSE, 0)
Miss == Sample(FALSE, 0, 0, One, 1, FALSE, 0)

\* the sample lists a pixel can carry
PixelKinds ==
    { << >>,
      << Hit(2, 0, One), Miss >>,
      << Hit(2, 0, One) >>,
      << Hit(2, 0, 9), Hit(3, 1, 14) >>,
      << Hit(6, 0, 8), Sample(TRUE, 2, 0, One, 1, TRUE, 8) >>,
      << Hit(8, 0, One) >>,
      << Hit(9, 0, One) >> }

Manifest(edge, hardEdge, accuracy, suppression, boost, fade, soften) ==
    [EdgeThreshold |-> edge, HardEdgeThreshold |-> hardEdge,
     Accuracy |-> accuracy, RecoveredVoxelSuppression |-> suppression,
     DetailBoost |-> boost, FadeToBlack |-> fade, SoftenEdges |-> soften,
     Scale |-> 1]

\* a job: the definition and the sprite of one call of GetShaderOutput
Job(manifest, offsetX, offsetY) ==
    [def |-> manifest, spr |-> [OffsetX |-> offsetX, OffsetY |-> offsetY]]

Jobs ==
    { Job(Manifest(0, 0, 1, 0, 0, FALSE, FALSE), 0, 0),
      Job(Manifest(One \div 2, One \div 2, 2, One \div 2, One, TRUE, TRUE), 0, 0),
      Job(Manifest((3 * One) \div 4, One \div 4, 1, 0, 0, FALSE, TRUE), 1, 0) }

Columns == 0 .. (Width - 1)
Rows == 0 .. (Height - 1)

\* a scene: a background of one kind of pixel and, in the foreground, a band
\* of columns, a band of rows or a single pixel of another kind
Rectangles ==
    { [x0 |-> a, x1 |-> b, y0 |-> c, y1 |-> e] :
        a \in Columns, b \in Columns, c \in Rows, e \in Rows }

Shapes ==
    { r \in Rectangles :
        \/ (r.x0 <= r.x1 /\ r.y0 = 0 /\ r.y1 = Height - 1)
        \/ (r.y0 <= r.y1 /\ r.x0 = 0 /\ r.x1 = Width - 1)
        \/ (r.x0 = r.x1 /\ r.y0 = r.y1) }

Scene(back, fore, rect) ==
    [i \in Columns |-> [j \in Rows |->
        IF rect.x0 <= i /\ i <= rect.x1 /\ rect.y0 <= j /\ j <= rect.y1
        THEN fore ELSE back]]

\* --------------------------------------------------------------- shade
ZeroAcc ==
    [totalInfluence |-> 0, filledInfluence |-> 0, filledSamples |-> 0,
     totalSamples |-> 0, Colour |-> ZeroRGB, SpecialColour |-> ZeroRGB,
     Specialness |-> 0, values |-> << >>]

\* values[k] += v on a Go map: a missing key starts at 0
Bump(values, k, v) ==
    IF k \in DOMAIN values THEN [values EXCEPT ![k] = @ + v]
    ELSE values @@ (k :> v)

Min(S) == CHOOSE m \in S : \A n \in S : m <= n

MinDepth(info) ==
    LET depths == { info[i].Depth : i \in { j \in DOMAIN info : info[j].Collision } }
    IN IF depths = {} THEN MaxDepth ELSE Min(depths)

Influence(s, d, minDepth) ==
    LET i1 == IF s.IsRecovered
              THEN (s.Influence * (One - d.RecoveredVoxelSuppression)) \div One
              ELSE s.Influence
        i2 == IF d.DetailBoost # 0
              THEN (i1 * (One + ((s.Detail * d.DetailBoost) \div One))) \div One
              ELSE i1
    IN IF s.Depth # minDepth THEN i2 \div d.Accuracy ELSE i2

\* Colour(s, def, regular, influence): the sample's palette colour, weighted
Colour(s, regular, influence) ==
    LET c == GetRGB(s.Index)
    IN RGB(c.R * influence, c.G * influence, c.B * influence)

RECURSIVE Accumulate(_, _, _, _, _)
Accumulate(info, d, minDepth, i, acc) ==
    IF i > Len(info) THEN acc
    ELSE
      LET s == info[i]
          w == Influence(s, d, minDepth)
          filled == s.Collision /\ IsRenderable(s.Index)
          v1 == IF filled /\ IsSpecialColour(s.Index)
                THEN Bump(acc.values, s.Index, One) ELSE acc.values
          v2 == IF filled /\ s.Index # 0 THEN Bump(v1, s.Index, w) ELSE v1
      IN Accumulate(info, d, minDepth, i + 1,
           [totalInfluence |-> acc.totalInfluence + w,
            filledInfluence |-> IF filled THEN acc.filledInfluence + w
                                ELSE acc.filledInfluence,
            filledSamples |-> IF filled THEN acc.filledSamples + s.Count
                              ELSE acc.filledSamples,
            totalSamples |-> acc.totalSamples + s.Count,
            Colour |-> IF filled THEN Add(acc.Colour, Colour(s, TRUE, w))
                       ELSE acc.Colour,
            SpecialColour |-> IF filled
                              THEN Add(acc.SpecialColour, Colour(s, FALSE, w))
                              ELSE acc.SpecialColour,
            Specialness |-> IF filled /\ IsSpecialColour(s.Index)
                            THEN acc.Specialness + w ELSE acc.Specialness,
            values |-> v2])

Tally(info, d) == Accumulate(info, d, MinDepth(info), 1, ZeroAcc)

\* the orders in which `for k, v := range values` can visit the keys
Orders(keys) ==
    { f \in [1 .. Cardinality(keys) -> keys] :
        \A i, j \in DOMAIN f : f[i] = f[j] => i = j }

RECURSIVE PickModal(_, _, _, _, _, _)
PickModal(values, ord, i, max, modal, alt) ==
    IF i > Cardinality(DOMAIN values)
    THEN [ModalIndex |-> modal, alternateModal |-> alt]
    ELSE IF values[ord[i]] > max
         THEN PickModal(values, ord, i + 1, values[ord[i]], ord[i], modal)
         ELSE PickModal(values, ord, i + 1, max, modal, alt)

shade(info, d, prevIndex, ord) ==
    LET acc == Tally(info, d)
        pick == PickModal(acc.values, ord, 1, 0, 0, 0)
        modal == IF /\ pick.ModalIndex = prevIndex
                    /\ Entries(pick.ModalIndex).Range = Entries(pick.alternateModal).Range
                    /\ pick.alternateModal # 0
                 THEN pick.alternateModal ELSE pick.ModalIndex
        hardEdgeThreshold == (d.HardEdgeThreshold * 100) \div One
        alpha == IF d.SoftenEdges
                 THEN FDiv(acc.filledInfluence * One, acc.totalInfluence) ELSE One
        divisor == IF d.FadeToBlack THEN acc.totalInfluence ELSE acc.filledInfluence
    IN IF acc.totalSamples = 0 THEN ZeroInfo
       ELSE IF (acc.filledSamples * 100) \div acc.totalSamples <= hardEdgeThreshold
       THEN ZeroInfo
       ELSE [ZeroInfo EXCEPT
               !.Colour = DivideAndClamp(acc.Colour, divisor),
               !.SpecialColour = DivideAndClamp(acc.SpecialColour, divisor),
               !.Alpha = alpha,
               !.Specialness = FDiv(acc.Specialness * One, divisor),
               !.ModalIndex = modal]

\* -------------------------------------------------------- getBestIndex
\* A sum of squared channel differences does not fit in 32 bits, so it is
\* carried exactly as hi * 65536 + lo; nan marks a NaN sum.
Wide(hi, lo) == [nan |-> FALSE, hi |-> hi + (lo \div 65536), lo |-> lo % 65536]
WideNaN == [nan |-> TRUE, hi |-> 0, lo |-> 0]
MaxFloat64 == [nan |-> FALSE, hi |-> Inf, lo |-> 0]

WideAdd(u, v) == IF u.nan \/ v.nan THEN WideNaN ELSE Wide(u.hi + v.hi, u.lo + v.lo)
WideLess(u, v) ==
    ~u.nan /\ ~v.nan /\ (u.hi < v.hi \/ (u.hi = v.hi /\ u.lo < v.lo))
WideIsZero(u) == ~u.nan /\ u.hi = 0 /\ u.lo = 0

squareDiff(a, b) ==
    LET diff == FSub(a, b)
        hi == Abs(diff) \div 256
        lo == Abs(diff) % 256
    IN IF diff = NaN THEN WideNaN
       ELSE Wide(hi * hi, (2 * hi * lo * 256) + (lo * lo))

IsSentinel(p) ==
    p.R > SentinelLevel /\ (p.G = 0 \/ p.G > SentinelLevel) /\ p.B > SentinelLevel

RECURSIVE BestFrom(_, _, _, _, _)
BestFrom(error, palette, index, bestIndex, bestSum) ==
    IF index \notin DOMAIN palette THEN bestIndex
    ELSE IF IsSentinel(palette[index])
         THEN BestFrom(error, palette, index + 1, bestIndex, bestSum)
    ELSE
      LET p == palette[index]
          sum == WideAdd(WideAdd(squareDiff(error.R, p.R), squareDiff(error.G, p.G)),
                         squareDiff(error.B, p.B))
      IN IF WideLess(sum, bestSum)
         THEN (IF WideIsZero(sum) THEN index
               ELSE BestFrom(error, palette, index + 1, index, sum))
         ELSE BestFrom(error, palette, index + 1, bestIndex, bestSum)

getBestIndex(error, palette) == BestFrom(error, palette, 0, 0, MaxFloat64)

\* -------------------------------------------------------- ditherOutput
\* The error rows are Go slices of length height+2; row[j] is kept at j + 1.
ZeroRow == [j \in 1 .. (Height + 2) |-> ZeroRGB]

AddAt(row, j, c) == [row EXCEPT ![j + 1] = Add(@, c)]

FGeq(a, b) == a # NaN /\ b # NaN /\ a >= b

ditherOutput(d, out, px, py, curr, next) ==
    LET info == out[px][py]
        rng == RangeOf(Entries(info.ModalIndex).Range)
        transparent == FLess(info.Alpha, d.EdgeThreshold)
        aboveSpecial == py > 0 /\ IsSpecialColour(out[px][py - 1].ModalIndex)
        special == IF aboveSpecial THEN info.SpecialColour
                   ELSE Add(info.SpecialColour, curr[py + 2])
        regular == IF aboveSpecial THEN info.Colour
                   ELSE Add(info.Colour, curr[py + 2])
        animated == ~transparent /\ ~rng.IsPrimaryCompanyColour
                    /\ ~rng.IsSecondaryCompanyColour /\ rng.IsAnimatedLight
        bestIndex ==
            IF transparent THEN 0
            ELSE IF rng.IsPrimaryCompanyColour
                 THEN getBestIndex(special, GetPrimaryCompanyColourPalette)
            ELSE IF rng.IsSecondaryCompanyColour
                 THEN getBestIndex(special, GetSecondaryCompanyColourPalette)
            ELSE IF rng.IsAnimatedLight THEN info.ModalIndex
            ELSE getBestIndex(regular, GetRegularPalette)
        target ==
            IF transparent THEN ZeroRGB
            ELSE IF rng.IsPrimaryCompanyColour \/ rng.IsSecondaryCompanyColour
                 THEN special
            ELSE IF rng.IsAnimatedLight THEN GetRGB(bestIndex)
            ELSE regular
        error == IF FGeq(info.Alpha, d.EdgeThreshold)
                 THEN ClampRGB(Subtract(target, GetRGB(bestIndex)))
                 ELSE ZeroRGB
        next1 == AddAt(next, py + 0, MultiplyBy(error, 3, 16))
        next2 == AddAt(next1, py + 1, MultiplyBy(error, 5, 16))
        next3 == AddAt(next2, py + 2, MultiplyBy(error, 1, 16))
        curr1 == AddAt(curr, py + 2, MultiplyBy(error, 7, 16))
    IN [output |-> [out EXCEPT ![px][py] =
                       [info EXCEPT !.IsAnimated = @ \/ animated,
                                    !.DitheredIndex = bestIndex,
                                    !.IsMaskColour = @ \/ IsSpecialColour(bestIndex)]],
        errCurr |-> [curr1 EXCEPT ![py + 2] = ZeroRGB],
        errNext |-> next3,
        bestIndex |-> bestIndex]

\* ----------------------------------------------------------- floodFill
\* floodFill without the recursion towards y + 1
RECURSIVE floodFillThreeWay(_, _, _, _, _)
floodFillThreeWay(out, region, px, py, paletteRange) ==
    LET index == out[px][py].ModalIndex
        thisRegion == out[px][py].Region
        thisRange == Entries(index).Range
        o0 == [out EXCEPT ![px][py].Region = region]
        o1 == IF px > 0 THEN floodFillThreeWay(o0, region, px - 1, py, paletteRange) ELSE o0
        o2 == IF py > 0 THEN floodFillThreeWay(o1, region, px, py - 1, paletteRange) ELSE o1
        o3 == IF px < Width - 1 THEN floodFillThreeWay(o2, region, px + 1, py, paletteRange) ELSE o2
    IN IF thisRange # paletteRange \/ thisRegion = region THEN out ELSE o3

RECURSIVE floodFill(_, _, _, _, _)
floodFill(out, region, px, py, paletteRange) ==
    LET index == out[px][py].ModalIndex
        thisRegion == out[px][py].Region
        thisRange == Entries(index).Range
        o0 == [out EXCEPT ![px][py].Region = region]
        o1 == IF px > 0 THEN floodFill(o0, region, px - 1, py, paletteRange) ELSE o0
        o2 == IF py > 0 THEN floodFill(o1, region, px, py - 1, paletteRange) ELSE o1
        o3 == IF px < Width - 1 THEN floodFill(o2, region, px + 1, py, paletteRange) ELSE o2
        o4 == IF py < Height - 1 THEN floodFill(o3, region, px, py + 1, paletteRange) ELSE o3
    IN IF thisRange # paletteRange \/ thisRegion = region THEN out ELSE o4

\* ------------------------------------------------------ MultiplyColours
Sum(c) == FAdd(FAdd(c.R, c.G), c.B)

\* m - ((m - c) * k)  and  m + ((c - m) * k), k a weight in units of 1/One
Towards(m, c, k) == FSub(m, FDiv(FMul(FSub(m, c), k), One))
Beyond(m, c, k) == FAdd(m, FDiv(FMul(FSub(c, m), k), One))

MultiplyColours(cd, midpoint, c) ==
    IF FLess(Sum(c), Sum(midpoint))
    THEN ClampRGB(RGB(Towards(midpoint.R, c.R, cd.Low),
                      Towards(midpoint.G, c.G, cd.Low),
                      Towards(midpoint.B, c.B, cd.Low)))
    ELSE ClampRGB(RGB(Beyond(midpoint.R, c.R, cd.High),
                      Beyond(midpoint.G, c.G, cd.High),
                      Beyond(midpoint.B, c.B, cd.High)))

\* ---------------------------------------------------------- projections
\* GetMaskIndex with >= for > in both comparisons
GetMaskIndexInclusive(s) ==
    IF s.Specialness >= (3 * One) \div 4 \/ s.IsAnimated THEN s.ModalIndex
    ELSE IF s.Specialness >= One \div 4 /\ s.IsMaskColour THEN s.DitheredIndex
    ELSE 0

\* GetRegion with the step 65536/4 for 65535/4
GetRegionRounded(s) ==
    RGB((s.Region % 4) * (65536 \div 4),
        ((s.Region \div 4) % 4) * (65536 \div 4),
        ((s.Region \div 16) % 4) * (65536 \div 4))

GetMaskIndex(s) ==
    IF s.Specialness > (3 * One) \div 4 \/ s.IsAnimated THEN s.ModalIndex
    ELSE IF s.Specialness > One \div 4 /\ s.IsMaskColour THEN s.DitheredIndex
    ELSE 0

GetRegion(s) ==
    RGB((s.Region % 4) * (65535 \div 4),
        ((s.Region \div 4) % 4) * (65535 \div 4),
        ((s.Region \div 16) % 4) * (65535 \div 4))

\* ------------------------------------------------- region statistics
\* lines 199-234: the statistics of one dithered pixel.  info is a copy of
\* the map entry; it is written back only inside the in-range branch.
UpdateStats(info, pixel, bestIndex) ==
    LET n == info.SizeInRange + 1
        col == IF IsSpecialColour(pixel.ModalIndex) THEN pixel.SpecialColour
               ELSE pixel.Colour
        avg == info.AverageColour
        mean(a, c) == FDiv(FAdd(FMul(a, n - 1), c), n)
    IN [info EXCEPT
          !.Size = @ + 1,
          !.SizeInRange = n,
          !.AverageColour = RGB(mean(avg.R, col.R), mean(avg.G, col.G), mean(avg.B, col.B)),
          !.MinIndex = IF bestIndex < @ \/ @ = 0 THEN bestIndex ELSE @,
          !.MaxIndex = IF bestIndex > @ \/ @ = 0 THEN bestIndex ELSE @,
          !.ModalCount = Bump(@, bestIndex, 1)]

\* lines 245-281: the Distance of one region whose Range is not nil
Ratio(avg, far, near) == FDiv(FMul(FSub(avg, far), One), FSub(avg, near))

Mean3(a, b, c) == FDiv(FAdd(FAdd(a, b), c), 3)

WithDistance(region) ==
    LET rng == Ranges[region.Range]
        minColour == GetRGB(region.MinIndex)
        maxColour == GetRGB(region.MaxIndex)
        lowIndex == IF rng.Start < region.MinIndex
                    THEN (IF region.MinIndex - rng.Start > 3
                          THEN region.MinIndex - 3 ELSE rng.Start)
                    ELSE region.MinIndex
        highIndex == IF rng.End > region.MaxIndex
                     THEN (IF rng.End - region.MaxIndex > 3
                           THEN region.MaxIndex + 3 ELSE rng.End)
                     ELSE region.MaxIndex
        lowColour == GetRGB(lowIndex)
        highColour == GetRGB(highIndex)
        avg == region.AverageColour
    IN [region EXCEPT !.Distance =
          [Low |-> Mean3(Ratio(avg.R, lowColour.R, minColour.R),
                         Ratio(avg.G, lowColour.G, minColour.G),
                         Ratio(avg.B, lowColour.B, minColour.B)),
           High |-> Mean3(Ratio(avg.R, highColour.R, maxColour.R),
                          Ratio(avg.G, highColour.G, maxColour.G),
                          Ratio(avg.B, highColour.B, maxColour.B))]]

\* regions[r] on the Go map: the zero RegionInfo for a missing key
RegionOf(r) == IF r \in DOMAIN regions THEN regions[r] ELSE ZeroRegion

\* ------------------------------------------------------------- actions
ZeroProj == [given |-> ZeroInfo, s |-> ZeroInfo, mask |-> << >>, region |-> << >>]

Init ==
    /\ \E back \in PixelKinds, fore \in PixelKinds, rect \in Shapes :
          renderOutput = Scene(back, fore, rect)
    /\ \E job \in Jobs : def = job.def /\ spr = job.spr
    /\ output = [i \in Columns |-> [j \in Rows |-> ZeroInfo]]
    /\ pc = "shade"
    /\ x = 0
    /\ y = 0
    /\ currentRegion = 1
    /\ regions = << >>
    /\ errCurr = << >>
    /\ errNext = << >>
    /\ proj = ZeroProj

\* the loop counters of `for x ... { for y ... }`; after the last pixel the
\* program moves on to `after`
LastInColumn == y + 1 = Height
LastPixel == LastInColumn /\ x + 1 = Width

Advance(after) ==
    /\ y' = IF LastInColumn THEN 0 ELSE y + 1
    /\ x' = IF LastPixel THEN 0 ELSE IF LastInColumn THEN x + 1 ELSE x
    /\ pc' = IF LastPixel THEN after ELSE pc

\* lines 135-154: one iteration of the shading loop
ShadeStep ==
    /\ pc = "shade"
    /\ LET xoffset == spr.OffsetX * def.Scale
           yoffset == spr.OffsetY * def.Scale
           rx == x + xoffset
           ry == y + yoffset
           prevIndex == IF x > 1 THEN output[x - 1][y].ModalIndex ELSE 0
       IN IF rx < 0 \/ rx >= Width \/ ry < 0 \/ ry >= Height
          THEN output' = output
          ELSE \E ord \in Orders(DOMAIN Tally(renderOutput[rx][ry], def).values) :
                  output' = [output EXCEPT ![x][y] =
                                shade(renderOutput[rx][ry], def, prevIndex, ord)]
    /\ Advance("segment")
    /\ UNCHANGED <<renderOutput, spr, def, currentRegion, regions, errCurr, errNext, proj>>

\* lines 160-189: one iteration of the region loop; the error rows are
\* allocated when the loop is left
SegmentStep ==
    /\ pc = "segment"
    /\ IF output[x][y].ModalIndex = 0 \/ output[x][y].Region # 0
       THEN UNCHANGED <<output, regions, currentRegion>>
       ELSE LET paletteRange == Entries(output[x][y].ModalIndex).Range
            IN /\ output' = floodFill(output, currentRegion, x, y, paletteRange)
               /\ regions' = regions @@ (currentRegion :> [ZeroRegion EXCEPT !.Range = paletteRange])
               /\ currentRegion' = currentRegion + 1
    /\ errCurr' = IF LastPixel THEN ZeroRow ELSE errCurr
    /\ errNext' = IF LastPixel THEN ZeroRow ELSE errNext
    /\ Advance("dither1")
    /\ UNCHANGED <<renderOutput, spr, def, proj>>

\* lines 194-239: one pixel of dithering pass 1 with its region statistics.
\* Writing ModalCount of the zero RegionInfo (a region id that is not a key
\* of regions) is an assignment to an entry of a nil map: a panic.
DitherOneStep ==
    /\ pc = "dither1"
    /\ \E d \in {ditherOutput(def, output, x, y, errCurr, errNext)} :
       LET pixel == d.output[x][y]
           info == RegionOf(pixel.Region)
           inRange == Entries(d.bestIndex).Range = info.Range /\ d.bestIndex # 0
       IN /\ output' = d.output
          /\ errCurr' = IF LastInColumn THEN d.errNext ELSE d.errCurr
          /\ errNext' = IF LastInColumn THEN d.errCurr ELSE d.errNext
          /\ IF inRange /\ pixel.Region \notin DOMAIN regions
             THEN /\ pc' = "panic"
                  /\ UNCHANGED <<x, y, regions>>
             ELSE /\ regions' = IF inRange
                                THEN [regions EXCEPT ![pixel.Region] =
                                        UpdateStats(info, pixel, d.bestIndex)]
                                ELSE regions
                  /\ Advance("distance")
    /\ UNCHANGED <<renderOutput, spr, def, currentRegion, proj>>

\* lines 241-287: the Distance of every region of more than one pixel.
\* region.Range.Start on a nil Range is a nil dereference: a panic.
DistanceStep ==
    /\ pc = "distance"
    /\ IF \E r \in DOMAIN regions : regions[r].Size > 1 /\ regions[r].Range = Nil
       THEN /\ pc' = "panic"
            /\ regions' = regions
       ELSE /\ pc' = "dither2"
            /\ regions' = [r \in DOMAIN regions |->
                             IF regions[r].Size > 1 THEN WithDistance(regions[r])
                             ELSE regions[r]]
    /\ UNCHANGED <<renderOutput, spr, def, output, x, y, currentRegion, errCurr, errNext, proj>>

\* lines 292-312: one pixel of dithering pass 2
DitherTwoStep ==
    /\ pc = "dither2"
    /\ LET info == RegionOf(output[x][y].Region)
           pixel == output[x][y]
           stretched ==
               IF info.Size > 1
               THEN (IF IsSpecialColour(pixel.ModalIndex)
                     THEN [pixel EXCEPT !.SpecialColour =
                              MultiplyColours(info.Distance, info.AverageColour, @)]
                     ELSE [pixel EXCEPT !.Colour =
                              MultiplyColours(info.Distance, info.AverageColour, @)])
               ELSE pixel
       IN \E d \in {ditherOutput(def, [output EXCEPT ![x][y] = stretched], x, y, errCurr, errNext)} :
          /\ output' = d.output
          /\ errCurr' = IF LastInColumn THEN d.errNext ELSE d.errCurr
          /\ errNext' = IF LastInColumn THEN d.errCurr ELSE d.errNext
    /\ Advance("done")
    /\ UNCHANGED <<renderOutput, spr, def, currentRegion, regions, proj>>

Next == ShadeStep \/ SegmentStep \/ DitherOneStep \/ DistanceStep \/ DitherTwoStep

Spec == Init /\ [][Next]_vars

\* ------------------------------------------ the projections, on their own
\* GetMaskIndex and GetRegion are pure functions of one ShaderInfo, called by
\* the sprite writer on any pixel; here on a ShaderInfo drawn from bounded
\* sets.  proj.given is the record as passed, proj.s the record afterwards.
Specialnesses ==
    { 0, One \div 4, (One \div 4) + 1, (3 * One) \div 4, ((3 * One) \div 4) + 1, One }

ProjInputs ==
    { [ZeroInfo EXCEPT !.Specialness = sp, !.IsAnimated = an, !.IsMaskColour = mk,
                       !.ModalIndex = mi, !.DitheredIndex = di, !.Region = rg] :
        sp \in Specialnesses, an \in BOOLEAN, mk \in BOOLEAN,
        mi \in {0, 2, 8}, di \in {0, 3, 6}, rg \in 0 .. MaxRegion }

InitProj ==
    /\ renderOutput = Scene(<< >>, << >>, [x0 |-> 0, x1 |-> 0, y0 |-> 0, y1 |-> 0])
    /\ spr = [OffsetX |-> 0, OffsetY |-> 0]
    /\ def = Manifest(0, 0, 1, 0, 0, FALSE, FALSE)
    /\ output = [i \in Columns |-> [j \in Rows |-> ZeroInfo]]
    /\ pc = "project"
    /\ x = 0
    /\ y = 0
    /\ currentRegion = 1
    /\ regions = << >>
    /\ errCurr = << >>
    /\ errNext = << >>
    /\ \E s \in ProjInputs : proj = [given |-> s, s |-> s, mask |-> << >>, region |-> << >>]

CallGetMaskIndex ==
    /\ pc = "project"
    /\ Len(proj.mask) < 2
    /\ proj' = [proj EXCEPT !.mask = Append(@, GetMaskIndex(proj.s))]
    /\ UNCHANGED <<renderOutput, spr, def, output, pc, x, y, currentRegion, regions, errCurr, errNext>>

CallGetRegion ==
    /\ pc = "project"
    /\ Len(proj.region) < 1
    /\ proj' = [proj EXCEPT !.region = Append(@, GetRegion(proj.s))]
    /\ UNCHANGED <<renderOutput, spr, def, output, pc, x, y, currentRegion, regions, errCurr, errNext>>

NextProj == CallGetMaskIndex \/ CallGetRegion

SpecProj == InitProj /\ [][NextProj]_vars

\* ---------------------------------------------------------------- claims
Pixels == Columns \X Rows
At(p) == output[p[1]][p[2]]

\* the pixel of renderOutput that output[i][j] is shaded from, if any
XOffset == spr.OffsetX * def.Scale
YOffset == spr.OffsetY * def.Scale
InBounds(p) ==
    /\ p[1] + XOffset >= 0 /\ p[1] + XOffset < Width
    /\ p[2] + YOffset >= 0 /\ p[2] + YOffset < Height
SamplesOf(p) == renderOutput[p[1] + XOffset][p[2] + YOffset]
PrevIndexOf(p) == IF p[1] > 1 THEN output[p[1] - 1][p[2]].ModalIndex ELSE 0
Shaded == pc \notin {"shade", "project"}
Segmented == pc \notin {"shade", "segment", "project"}

\* C1: when both dithering passes are done, a pixel whose sample list is
\* empty or whose filledSamples*100 <= HardEdgeThreshold*100*totalSamples
\* holds the zero ShaderInfo (so its DitheredIndex is 0).
DiscardedPixel(p) ==
    LET t == Tally(SamplesOf(p), def)
    IN \/ SamplesOf(p) = << >>
       \/ t.filledSamples * 100 * One <= def.HardEdgeThreshold * 100 * t.totalSamples

C1_TransparentStaysZero ==
    pc = "done" =>
        \A p \in Pixels : (InBounds(p) /\ DiscardedPixel(p)) => At(p) = ZeroInfo

\* C2: once the region loop has finished, the pixels that carry a region id
\* r > 0 are exactly one 4-connected component of pixels whose ModalIndex
\* entries have the identical PaletteRange.
Adjacent(p, q) ==
    \/ (p[1] = q[1] /\ (p[2] = q[2] + 1 \/ q[2] = p[2] + 1))
    \/ (p[2] = q[2] /\ (p[1] = q[1] + 1 \/ q[1] = p[1] + 1))
SameRange(p, q) == Entries(At(p).ModalIndex).Range = Entries(At(q).ModalIndex).Range

RECURSIVE Grow(_)
Grow(S) ==
    LET T == S \cup { q \in Pixels : \E p \in S : Adjacent(p, q) /\ SameRange(p, q) }
    IN IF T = S THEN S ELSE Grow(T)
Component(p) == Grow({p})
WithRegion(r) == { q \in Pixels : At(q).Region = r }

C2_RegionsAreComponents ==
    Segmented =>
        \A r \in { At(p).Region : p \in Pixels } \ {0} :
            WithRegion(r) = Component(CHOOSE p \in Pixels : At(p).Region = r)

\* two regions of the identical range, the first of more than one pixel,
\* right after the region loop
C2_Witness ==
    /\ pc = "dither1" /\ x = 0 /\ y = 0
    /\ \E p \in Pixels, q \in Pixels :
          /\ At(p).Region = 1 /\ At(q).Region > 1
          /\ SameRange(p, q)
          /\ Cardinality(WithRegion(1)) > 1

\* C3: the grid does not depend on the order in which shade visits the vote
\* table: the ModalIndex of every pixel is the one shade returns for every
\* order.
C3_Deterministic ==
    Shaded =>
        \A p \in Pixels : InBounds(p) =>
            \A ord \in Orders(DOMAIN Tally(SamplesOf(p), def).values) :
                shade(SamplesOf(p), def, PrevIndexOf(p), ord).ModalIndex = At(p).ModalIndex

\* C4: GetMaskIndex returns ModalIndex if Specialness > 0.75 or IsAnimated,
\* else DitheredIndex if Specialness > 0.25 and IsMaskColour, else 0; the
\* record is not modified and a second call returns the same byte.
C4_MaskIndexLaw ==
    LET s == proj.given
        high == 4 * s.Specialness > 3 * One \/ s.IsAnimated
        mid == ~high /\ 4 * s.Specialness > One /\ s.IsMaskColour
    IN /\ proj.s = proj.given
       /\ \A i \in DOMAIN proj.mask :
             /\ high => proj.mask[i] = s.ModalIndex
             /\ mid => proj.mask[i] = s.DitheredIndex
             /\ (~high /\ ~mid) => proj.mask[i] = 0
             /\ proj.mask[i] \in {0, s.ModalIndex, s.DitheredIndex}
             /\ proj.mask[i] = proj.mask[1]

\* two calls on a mask-coloured pixel of middling specialness
C4_Witness ==
    /\ Len(proj.mask) = 2
    /\ ~proj.given.IsAnimated /\ proj.given.IsMaskColour
    /\ proj.given.Specialness = (3 * One) \div 4
    /\ proj.given.DitheredIndex = 6 /\ proj.given.ModalIndex = 2
    /\ proj.mask[2] = 6

\* C5 as stated: GetRegion returns (region % 4) * 16384, ((region/4) % 4) *
\* 16384, ((region/16) % 4) * 16384.
C5_RegionBase4Times16384 ==
    \A i \in DOMAIN proj.region :
        proj.region[i] = RGB((proj.given.Region % 4) * 16384,
                             ((proj.given.Region \div 4) % 4) * 16384,
                             ((proj.given.Region \div 16) % 4) * 16384)

\* C5 amended: the three base-4 digits of the region id, each times 16383
\* (the integer quotient 65535/4).
C5_RegionBase4Times16383 ==
    \A i \in DOMAIN proj.region :
        \E d0 \in 0 .. 3, d1 \in 0 .. 3, d2 \in 0 .. 3, h \in 0 .. proj.given.Region :
            /\ proj.given.Region = d0 + (4 * d1) + (16 * d2) + (64 * h)
            /\ proj.region[i] = RGB(d0 * 16383, d1 * 16383, d2 * 16383)

\* a region id whose three base-4 digits are all nonzero
C5_Witness ==
    /\ Len(proj.region) = 1
    /\ proj.given.Region = 1 + (2 * 4) + (3 * 16)
    /\ proj.region[1] = RGB(16383, 2 * 16383, 3 * 16383)

\* C6: GetShaderOutput runs to completion without a runtime fault.
C6_NoRuntimeFault == pc # "panic"

\* C7: when dithering pass 2 starts, both error rows hold zero in every cell.
C7_ErrorRowsZeroAtPassTwo ==
    (pc = "dither2" /\ x = 0 /\ y = 0) => (errCurr = ZeroRow /\ errNext = ZeroRow)

\* C8: after dithering pass 1, regions[r].Size is the number of pixels whose
\* Region is r, SizeInRange the number of those whose nonzero dithered index
\* lies in the region's Range, and Size >= SizeInRange.
C8_SizeCountsPixels ==
    pc = "distance" =>
        \A r \in DOMAIN regions :
            /\ regions[r].Size = Cardinality(WithRegion(r))
            /\ regions[r].SizeInRange =
                  Cardinality({ p \in WithRegion(r) :
                      /\ At(p).DitheredIndex # 0
                      /\ Entries(At(p).DitheredIndex).Range = regions[r].Range })
            /\ regions[r].Size >= regions[r].SizeInRange

\* C9: a pixel that is not discarded, whose highest vote A and second
\* highest nonzero vote B lie in the identical range and whose prevIndex is
\* A, gets ModalIndex B, whatever the order of iteration.
Kept(p) ==
    LET t == Tally(SamplesOf(p), def)
    IN /\ t.totalSamples # 0
       /\ (t.filledSamples * 100) \div t.totalSamples > (def.HardEdgeThreshold * 100) \div One

C9_AntiBanding ==
    Shaded =>
        \A p \in Pixels : (InBounds(p) /\ Kept(p)) =>
            LET v == Tally(SamplesOf(p), def).values
            IN \A a \in DOMAIN v, b \in DOMAIN v :
                  ( /\ a # b /\ b # 0
                    /\ v[a] > v[b] /\ v[b] > 0
                    /\ \A k \in DOMAIN v \ {a, b} : v[b] > v[k]
                    /\ Entries(a).Range = Entries(b).Range
                    /\ PrevIndexOf(p) = a )
                  => At(p).ModalIndex = b

\* C10: after the region loop a pixel has Region = 0 iff its ModalIndex is 0.
C10_RegionIffModal ==
    Segmented => \A p \in Pixels : (At(p).Region = 0) <=> (At(p).ModalIndex = 0)

====
